---- MODULE Spec2Model ----
(***************************************************************************)
(* Yonex product monitor: the size analyzer (talk_to_ai.py), the change    *)
(* detection cycle (yonex_site_checker.py), the durable store              *)
(* (products_into_db.py) and the notifier (telegram_notifier.py).          *)
(*                                                                         *)
(* Python values are modelled as follows.                                  *)
(*   - A JSON value is a record [t, items]: t is its type, items the       *)
(*     elements of a list of strings (or the tokens of a string).          *)
(*   - A dict is a function from its keys to JSON values, so that a        *)
(*     missing key is a key outside DOMAIN.                                *)
(*   - A text (an oracle response, an exception message) is a sequence of  *)
(*     tokens; "x in text" is the presence of a token.                     *)
(***************************************************************************)
EXTENDS Integers, Sequences, FiniteSets, TLC

VARIABLES
    ai,         \* talk_to_ai module state: provider, client library, API key
    aPc,        \* position of the analyze_sizes call: "idle", "loop", "done"
    aDesc,      \* the description analyze_sizes was called with
    aAttempt,   \* loop variable `attempt` of the retry loop
    aInit,      \* how the construction of the client ended in this call
    aOutcomes,  \* what the oracle gave back to each request of this call
    aSlept,     \* seconds slept before each retry of this call
    aResult,    \* the dict the call returned
    history,    \* per site, the history file <site>_products.json
    db,         \* per site, the rows of <site>_products.db
    subscribers, \* Notifier.subscribers
    owner_id,   \* Notifier.owner_id (0: none)
    last,       \* what the cycle of this iteration of the poll loop did
    cycles,     \* iterations of the poll loop so far
    nUrl,       \* the string normalize_image_url is first called with
    nOut,       \* what the successive calls of normalize_image_url returned
    sPc,        \* position of get_products_with_image_ids: "idle", "loop", "done"
    sSeen,      \* the headers of the page the loop has gone through
    products_by_image,  \* the dict get_products_with_image_ids builds
    subscribers_file,   \* telegram_subscribers.json
    bLast       \* the last add_subscriber / remove_subscriber call and what it returned

avars == <<aPc, aDesc, aAttempt, aInit, aOutcomes, aSlept, aResult>>
cvars == <<history, db, last, cycles>>
nvars == <<subscribers, owner_id>>
bvars == <<subscribers_file, bLast>>
svars == <<nUrl, nOut, sPc, sSeen, products_by_image, subscribers_file, bLast>>

vars == <<ai, aPc, aDesc, aAttempt, aInit, aOutcomes, aSlept, aResult,
          history, db, subscribers, owner_id, last, cycles,
          nUrl, nOut, sPc, sSeen, products_by_image, subscribers_file, bLast>>

---------------------------------------------------------------------------
(* JSON values and dicts *)

JList(items) == [t |-> "list", items |-> items]
JStr(items)  == [t |-> "str", items |-> items]
JNull        == [t |-> "null", items |-> <<>>]
JNum         == [t |-> "num", items |-> <<>>]
\* a list that holds a list or an object: its elements are unhashable
JNested      == [t |-> "nested", items |-> <<>>]
JObj         == [t |-> "obj", items |-> <<>>]

EmptyDict == [k \in {} |-> JNull]

\* d.get(key, default)
Get(d, key, default) == IF key \in DOMAIN d THEN d[key] ELSE default

\* the dict every failure path of talk_to_ai.py builds
ErrorSizeSet(msg) ==
    [available |-> JList(<<>>), sold_out |-> JList(<<>>), error |-> JStr(msg)]

Range(s) == {s[i] : i \in 1..Len(s)}
Range2(f) == {f[x] : x \in DOMAIN f}

---------------------------------------------------------------------------
(* Texts of the oracle: token sequences *)

Tok(k)           == [k |-> k, key |-> "", val |-> JNull]
Member(key, val) == [k |-> "member", key |-> key, val |-> val]
FENCE  == Tok("fence")     \* ``` or ```json
NL     == Tok("nl")        \* a line break (whitespace)
PROSE  == Tok("prose")     \* words without braces
LBRACE == Tok("lbrace")
RBRACE == Tok("rbrace")
\* "key": { ... } : the key of a member whose value is the object that follows
KeyOf(key) == Member(key, JObj)

RECURSIVE LStrip(_)
LStrip(s) == IF s # <<>> /\ Head(s) = NL THEN LStrip(Tail(s)) ELSE s

RECURSIVE RStrip(_)
RStrip(s) == IF s # <<>> /\ s[Len(s)] = NL THEN RStrip(SubSeq(s, 1, Len(s) - 1)) ELSE s

\* str.strip()
Strip(s) == RStrip(LStrip(s))

\* str.split("\n")
RECURSIVE SplitLines(_, _)
SplitLines(s, cur) ==
    IF s = <<>> THEN <<cur>>
    ELSE IF Head(s) = NL THEN <<cur>> \o SplitLines(Tail(s), <<>>)
    ELSE SplitLines(Tail(s), Append(cur, Head(s)))

\* "\n".join(lines)
RECURSIVE JoinLines(_)
JoinLines(lines) ==
    IF lines = <<>> THEN <<>>
    ELSE IF Len(lines) = 1 THEN lines[1]
    ELSE lines[1] \o <<NL>> \o JoinLines(Tail(lines))

StartsWithFence(line) == line # <<>> /\ Head(line) = FENCE

\* [l for l in lines if not l.startswith("```")]
RECURSIVE DropFenceLines(_)
DropFenceLines(lines) ==
    IF lines = <<>> THEN <<>>
    ELSE IF StartsWithFence(Head(lines)) THEN DropFenceLines(Tail(lines))
    ELSE <<Head(lines)>> \o DropFenceLines(Tail(lines))

\* str.find('{') and str.rfind('}'), 1-based, 0 when absent
Find(s, tok)  == IF tok \in Range(s)
                 THEN CHOOSE i \in 1..Len(s) : s[i] = tok /\ \A j \in 1..(i-1) : s[j] # tok
                 ELSE 0
RFind(s, tok) == IF tok \in Range(s)
                 THEN CHOOSE i \in 1..Len(s) : s[i] = tok /\ \A j \in (i+1)..Len(s) : s[j] # tok
                 ELSE 0

Fail == [ok |-> FALSE, dict |-> EmptyDict, rest |-> <<>>]

\* The members of an object up to its closing brace: the dict and what follows.
RECURSIVE ParseItems(_, _)
ParseItems(s, acc) ==
    IF s = <<>> THEN Fail
    ELSE IF Head(s) = NL THEN ParseItems(Tail(s), acc)
    ELSE IF Head(s) = RBRACE THEN [ok |-> TRUE, dict |-> acc, rest |-> Tail(s)]
    ELSE IF Head(s).k = "member" /\ Head(s).val # JObj
         THEN ParseItems(Tail(s), (Head(s).key :> Head(s).val) @@ acc)
    ELSE IF Head(s).k = "member" /\ Len(s) >= 2 /\ s[2] = LBRACE
         THEN LET inner == ParseItems(Tail(Tail(s)), EmptyDict)
              IN  IF inner.ok
                  THEN ParseItems(inner.rest, (Head(s).key :> JObj) @@ acc)
                  ELSE Fail
    ELSE Fail

\* json.loads of a text: ok exactly when the text is one object and nothing else
JsonLoads(s) ==
    LET t == Strip(s)
    IN  IF t = <<>> \/ Head(t) # LBRACE
        THEN Fail
        ELSE LET r == ParseItems(Tail(t), EmptyDict)
             IN  IF r.ok /\ Strip(r.rest) = <<>> THEN r ELSE Fail

_parse_json_response(response_text) ==
    LET stripped == Strip(response_text)
        unfenced == IF stripped # <<>> /\ Head(stripped) = FENCE
                    THEN Strip(JoinLines(DropFenceLines(SplitLines(stripped, <<>>))))
                    ELSE stripped
    IN  IF LBRACE \in Range(unfenced) /\ RBRACE \in Range(unfenced)
        THEN LET json_start == Find(unfenced, LBRACE)
                 json_end   == RFind(unfenced, RBRACE)
                 loaded     == JsonLoads(SubSeq(unfenced, json_start, json_end))
             IN  IF loaded.ok THEN loaded.dict
                 ELSE ErrorSizeSet(<<"JSON parse error:", "detail">>)
        ELSE ErrorSizeSet(<<"Invalid JSON response">>)

---------------------------------------------------------------------------
(* Exception messages of the oracle: token sequences of words and numbers *)

Word(w) == [w |-> w, n |-> 0]
Num(n)  == [w |-> "#", n |-> n]

HasWord(msg, ws) == \E i \in 1..Len(msg) : msg[i].w \in ws
\* '429' in error_str: the number 429 or the word
Has429(msg) == \E i \in 1..Len(msg) : msg[i] = Num(429) \/ msg[i].w = "429"

max_retries == 3

\* the rate-limit test of _send_to_gemini
GeminiRateLimited(msg) ==
    HasWord(msg, {"retryDelay", "RESOURCE_EXHAUSTED"}) \/ Has429(msg)

\* the rate-limit test of _send_to_qwen: '429' in s or 'rate' in s.lower()
QwenRateLimited(msg) ==
    Has429(msg) \/ HasWord(msg, {"rate", "Rate", "generate"})

\* re.search(r"retryDelay[^0-9]*?(\d+)", error_str, re.IGNORECASE): the first
\* number after the first retryDelay; 0 when there is no match
DelayMatch(msg) ==
    LET starts == {i \in 1..Len(msg) : msg[i].w \in {"retryDelay", "RetryDelay"}
                      /\ \E j \in (i+1)..Len(msg) : msg[j].w = "#"}
    IN  IF starts = {} THEN [found |-> FALSE, n |-> 0]
        ELSE LET i == CHOOSE a \in starts : \A b \in starts : a <= b
                 j == CHOOSE a \in (i+1)..Len(msg) :
                          msg[a].w = "#" /\ \A b \in (i+1)..(a-1) : msg[b].w # "#"
             IN  [found |-> TRUE, n |-> msg[j].n]

Max(a, b) == IF a >= b THEN a ELSE b

\* the wait when the message names no delay
default_delay == 60

\* delay_seconds of _send_to_gemini
GeminiDelay(msg) ==
    LET m == DelayMatch(msg)
    IN  Max(IF m.found THEN m.n + 5 ELSE default_delay, 15)

QwenDelay == 30

(* One request to the oracle and what the client gives back. *)
TextOutcome(text) == [kind |-> "text", text |-> text, msg |-> <<>>]
RaiseOutcome(msg) == [kind |-> "raise", text |-> <<>>, msg |-> msg]
\* response.text (or message.content) is None
NoneOutcome       == [kind |-> "none", text |-> <<>>, msg |-> <<>>]

NoneTypeMsg == <<Word("'NoneType' object has no attribute 'strip'")>>

Done(result)       == [done |-> TRUE, result |-> result, sleep |-> 0, rate |-> FALSE]
DoneRate(result)   == [done |-> TRUE, result |-> result, sleep |-> 0, rate |-> TRUE]
RetryAfter(delay)  == [done |-> FALSE, result |-> EmptyDict, sleep |-> delay, rate |-> TRUE]

\* a variant of the except clause that retries after any exception
OnApiError_RetryAny(msg, attempt, rateLimited, delay) ==
    IF attempt < max_retries - 1
    THEN RetryAfter(delay)
    ELSE IF rateLimited
         THEN DoneRate(ErrorSizeSet(<<"Rate limited after", "3", "attempts">>))
         ELSE Done(ErrorSizeSet([i \in 1..Len(msg) |-> msg[i].w]))

\* what an exception of one attempt leads to (the except clause of the loop)
OnApiError(msg, attempt, rateLimited, delay) ==
    IF rateLimited
    THEN IF attempt < max_retries - 1
         THEN RetryAfter(delay)
         ELSE DoneRate(ErrorSizeSet(<<"Rate limited after", "3", "attempts">>))
    ELSE Done(ErrorSizeSet([i \in 1..Len(msg) |-> msg[i].w]))   \* raise; str(e)

\* one iteration of the retry loop of _send_to_gemini
GeminiAttempt(attempt, outcome) ==
    CASE outcome.kind = "text" -> Done(_parse_json_response(outcome.text))
      [] outcome.kind = "none" ->
            OnApiError(NoneTypeMsg, attempt, GeminiRateLimited(NoneTypeMsg),
                       GeminiDelay(NoneTypeMsg))
      [] OTHER ->
            OnApiError(outcome.msg, attempt, GeminiRateLimited(outcome.msg),
                       GeminiDelay(outcome.msg))

\* one iteration of the retry loop of _send_to_qwen
QwenAttempt(attempt, outcome) ==
    CASE outcome.kind = "text" -> Done(_parse_json_response(outcome.text))
      [] outcome.kind = "none" ->
            OnApiError(NoneTypeMsg, attempt, QwenRateLimited(NoneTypeMsg), QwenDelay)
      [] OTHER ->
            OnApiError(outcome.msg, attempt, QwenRateLimited(outcome.msg), QwenDelay)

Attempt(provider, attempt, outcome) ==
    IF provider = "gemini" THEN GeminiAttempt(attempt, outcome)
    ELSE QwenAttempt(attempt, outcome)

(* What analyze_sizes does before the first request: the empty description,  *)
(* the provider, the client library and key, the construction of the client. *)
(* init is the outcome of constructing the client.                           *)
ClientOk         == [kind |-> "ok", msg |-> <<>>]
ClientRaise(msg) == [kind |-> "raise", msg |-> msg]

EnterLoop == [done |-> FALSE, result |-> EmptyDict, sleep |-> 0, rate |-> FALSE]

_send_to_gemini_start(conf, init) ==
    IF ~conf.gemini_available
    THEN Done(ErrorSizeSet(<<"Gemini not available (google-genai not installed)">>))
    ELSE IF init.kind = "raise"
    THEN Done(ErrorSizeSet([i \in 1..Len(init.msg) |-> init.msg[i].w]))
    ELSE EnterLoop

_send_to_qwen_start(conf, init) ==
    IF ~conf.qwen_api_key
    THEN Done(ErrorSizeSet(<<"DASHSCOPE_API_KEY environment variable not set">>))
    ELSE IF init.kind = "raise"
    THEN Done(ErrorSizeSet([i \in 1..Len(init.msg) |-> init.msg[i].w]))
    ELSE EnterLoop

analyze_sizes_start(conf, description, init) ==
    IF description = ""
    THEN Done(ErrorSizeSet(<<"No description provided">>))
    ELSE IF conf.provider = "gemini" THEN _send_to_gemini_start(conf, init)
    ELSE IF conf.provider = "qwen" THEN _send_to_qwen_start(conf, init)
    ELSE Done(ErrorSizeSet(<<"Unknown provider:", conf.provider>>))

(* The retry loop run to its end on a script: script[i] is the outcome of the *)
(* i-th request. Gives the dict returned and the requests sent.               *)
RECURSIVE RetryLoop(_, _, _, _)
RECURSIVE AfterAttempt(_, _, _, _, _)

\* the loop after the attempt that ended as r: return, or sleep and go on
AfterAttempt(provider, script, attempt, slept, r) ==
    IF r.done
    THEN [result |-> r.result, requests |-> attempt + 1, slept |-> slept]
    ELSE RetryLoop(provider, script, attempt + 1, Append(slept, r.sleep))

RetryLoop(provider, script, attempt, slept) ==
    IF attempt >= max_retries
    THEN [result |-> ErrorSizeSet(<<"Max retries exceeded">>),
          requests |-> attempt, slept |-> slept]
    ELSE AfterAttempt(provider, script, attempt, slept,
                      Attempt(provider, attempt, script[(attempt % Len(script)) + 1]))

\* analyze_sizes after the steps s that precede the first request
AfterStart(conf, script, s) ==
    IF s.done
    THEN [result |-> s.result, requests |-> 0, slept |-> <<>>]
    ELSE RetryLoop(conf.provider, script, 0, <<>>)

\* analyze_sizes as one call: the dict it returns and the requests it sent
analyze_sizes(conf, description, init, script) ==
    AfterStart(conf, script, analyze_sizes_start(conf, description, init))

---------------------------------------------------------------------------
(* Responses and exceptions of the oracle the model draws from *)

T_ok      == <<LBRACE, Member("available", JList(<<"S">>)),
               Member("sold_out", JList(<<"M">>)), RBRACE>>
T_fenced  == <<FENCE, NL>> \o T_ok \o <<NL, FENCE>>
T_prose   == <<PROSE>>                       \* no braces at all
T_badjson == <<LBRACE, PROSE, RBRACE>>       \* braces around what is no JSON
T_open    == <<PROSE, LBRACE, Member("available", JList(<<"S">>))>>  \* never closed
T_nested  == <<LBRACE, Member("available", JNested), RBRACE>>
T_nokeys  == <<LBRACE, Member("sizes", JList(<<"S">>)), RBRACE>>

\* prose, an object, prose
T_around  == <<PROSE, NL>> \o T_ok \o <<NL, PROSE>>
\* an object, prose, and a second object
T_two     == T_ok \o <<NL, PROSE>> \o T_nokeys

\* an object with sizes and an error member of the oracle's own
T_err     == <<LBRACE, Member("available", JList(<<"S">>)),
               Member("sold_out", JList(<<>>)),
               Member("error", JStr(<<"size M unclear">>)), RBRACE>>

\* the answer the rules of the prompt ask for on "S-XXL (ausverkauft in XL, sonst komplett)"
T_xl      == <<LBRACE, Member("available", JList(<<"S", "M", "L", "XXL">>)),
               Member("sold_out", JList(<<"XL">>)), RBRACE>>

\* responses that hold no JSON object
BadTexts == {T_prose, T_badjson, T_open}
Texts    == {T_ok, T_fenced, T_nested, T_nokeys, T_around, T_two, T_err, T_xl} \cup BadTexts

M_empty    == <<>>                                   \* str(e) == ""
M_boom     == <<Word("boom")>>
M_429      == <<Num(429), Word("RESOURCE_EXHAUSTED")>>
M_delay    == <<Word("retryDelay"), Num(7)>>
M_rate     == <<Word("rate")>>
M_long     == <<Word("RESOURCE_EXHAUSTED"), Word("retryDelay"), Num(3600)>>
Msgs       == {M_empty, M_boom, M_429, M_delay, M_rate, M_long}

Outcomes == {TextOutcome(t) : t \in Texts} \cup {RaiseOutcome(m) : m \in Msgs}
               \cup {NoneOutcome}

ClientInits == {ClientOk, ClientRaise(M_boom)}

Providers == {"gemini", "qwen"}
Confs == [provider : Providers, gemini_available : BOOLEAN, qwen_api_key : BOOLEAN]

ADescs == {"", "S-M (komplett)", "S-XXL (ausverkauft in XL, sonst komplett)"}

\* the rate-limit signal of the provider in use
RateSignal(provider, outcome) ==
    /\ outcome.kind = "raise"
    /\ IF provider = "gemini" THEN GeminiRateLimited(outcome.msg)
       ELSE QwenRateLimited(outcome.msg)

---------------------------------------------------------------------------
(* Snapshots: yonex_site_checker.py *)

SITES == <<"bekleidung", "schuhe">>
SiteNames == Range(SITES)

\* normalize_text on the texts of the catalogue: lower case, runs of whitespace
\* collapsed, ends trimmed, quotes removed
normalize_text(text) ==
    CASE text = "S-M (komplett)"  -> "s-m (komplett)"
      [] text = "S-M  (Komplett)" -> "s-m (komplett)"
      [] text = "S-L (ausverkauft in L)" -> "s-l (ausverkauft in l)"
      [] text = "Shirt A" -> "shirt a"
      [] text = "Shirt  B" -> "shirt b"
      [] text = "CHF 49.-" -> "chf 49.-"
      [] text = "CHF 59.-" -> "chf 59.-"
      [] text = "\"\"" -> ""
      [] OTHER -> text

NullSizes == [null |-> TRUE, json |-> EmptyDict]          \* None
\* json.dumps(d): the text of the dict d
Dumps(d)  == [null |-> FALSE, json |-> d]

\* the record get_products_with_image_ids builds for one listing
ProductRecord(pic_url, raw) ==
    [name |-> normalize_text(raw.name),
     image_url |-> pic_url,
     description |-> normalize_text(raw.description),
     original_description |-> raw.description,
     price |-> normalize_text(raw.price),
     sizes |-> NullSizes]

EmptySnapshot == [k \in {} |-> NullSizes]

\* get_products_with_image_ids(url): fetch is what the request and the page gave
get_products_with_image_ids(fetch) ==
    IF fetch.kind = "nocontainer"
    THEN EmptySnapshot
    ELSE [pic_url \in DOMAIN fetch.listing |-> ProductRecord(pic_url, fetch.listing[pic_url])]

\* the history file of a site
AbsentFile     == [state |-> "absent", data |-> EmptySnapshot]
CorruptFile    == [state |-> "corrupt", data |-> EmptySnapshot]
SavedFile(snapshot) == [state |-> "ok", data |-> snapshot]

\* set(v) of a JSON value: TypeError for what is not iterable or holds
\* unhashable elements
SetOf(v) ==
    CASE v.t \in {"list", "str"} -> [exc |-> FALSE, set |-> Range(v.items)]
      [] v.t = "obj"             -> [exc |-> FALSE, set |-> {}]
      [] OTHER                   -> [exc |-> TRUE, set |-> {}]

NoAnalysis == [present |-> FALSE]

\* one call of analyze_sizes as the cycle sees it: r is what the call gave
CallRecord(pic_url, role, description, r) ==
    [image_url |-> pic_url, role |-> role, description |-> description,
     requests |-> r.requests, result |-> r.result]

\* orc gives, for a description, the script of the oracle
Call(conf, pic_url, role, description, orc) ==
    CallRecord(pic_url, role, description,
               analyze_sizes(conf, description, ClientOk,
                             IF description \in DOMAIN orc THEN orc[description]
                             ELSE <<NoneOutcome>>))

\* a variant in which no_longer_available repeats the operands of
\* newly_available
SizeDifference_SameOperands(old_sizes, new_sizes, old_available, new_available, old_sold_out, new_sold_out) ==
    [exc |-> old_available.exc \/ new_available.exc
                \/ old_sold_out.exc \/ new_sold_out.exc,
     value |-> [present |-> TRUE,
                old_sizes |-> old_sizes,
                new_sizes |-> new_sizes,
                newly_available |-> new_available.set \ old_available.set,
                newly_sold_out |-> new_sold_out.set \ old_sold_out.set,
                no_longer_available |-> new_available.set \ old_available.set,
                no_longer_sold_out |-> old_sold_out.set \ new_sold_out.set,
                has_size_changes |->
                    (new_available.set \ old_available.set) # {}
                       \/ (new_sold_out.set \ old_sold_out.set) # {}
                       \/ (old_sold_out.set \ new_sold_out.set) # {}]]

\* a variant whose has_size_changes looks at the two newly_ sets only
SizeDifference_OnlyNewly(old_sizes, new_sizes, old_available, new_available, old_sold_out, new_sold_out) ==
    [exc |-> old_available.exc \/ new_available.exc
                \/ old_sold_out.exc \/ new_sold_out.exc,
     value |-> [present |-> TRUE,
                old_sizes |-> old_sizes,
                new_sizes |-> new_sizes,
                newly_available |-> new_available.set \ old_available.set,
                newly_sold_out |-> new_sold_out.set \ old_sold_out.set,
                no_longer_available |-> old_available.set \ new_available.set,
                no_longer_sold_out |-> old_sold_out.set \ new_sold_out.set,
                has_size_changes |->
                    (new_available.set \ old_available.set) # {}
                       \/ (new_sold_out.set \ old_sold_out.set) # {}]]

\* the four set(...) of analyze_size_changes and the dict it returns
SizeDifference(old_sizes, new_sizes, old_available, new_available, old_sold_out, new_sold_out) ==
    [exc |-> old_available.exc \/ new_available.exc
                \/ old_sold_out.exc \/ new_sold_out.exc,
     value |-> [present |-> TRUE,
                old_sizes |-> old_sizes,
                new_sizes |-> new_sizes,
                newly_available |-> new_available.set \ old_available.set,
                newly_sold_out |-> new_sold_out.set \ old_sold_out.set,
                no_longer_available |-> old_available.set \ new_available.set,
                no_longer_sold_out |-> old_sold_out.set \ new_sold_out.set,
                has_size_changes |->
                    (new_available.set \ old_available.set) # {}
                       \/ (new_sold_out.set \ old_sold_out.set) # {}
                       \/ (old_available.set \ new_available.set) # {}
                       \/ (old_sold_out.set \ new_sold_out.set) # {}]]

\* analyze_size_changes after its two calls of analyze_sizes
CompareSizes(oldc, newc) ==
    [calls |-> <<oldc, newc>>,
     diff |-> SizeDifference(oldc.result, newc.result,
                  SetOf(Get(oldc.result, "available", JList(<<>>))),
                  SetOf(Get(newc.result, "available", JList(<<>>))),
                  SetOf(Get(oldc.result, "sold_out", JList(<<>>))),
                  SetOf(Get(newc.result, "sold_out", JList(<<>>))))]

\* the calls made, whether a set(...) raised, and the dict returned
SizeAnalysis(c) == [exc |-> c.diff.exc, calls |-> c.calls, value |-> c.diff.value]

\* a variant that analyses the new description a second time
analyze_size_changes_Reanalyze(conf, pic_url, old_description, new_description, orc) ==
    SizeAnalysis([CompareSizes(Call(conf, pic_url, "old", old_description, orc),
                               Call(conf, pic_url, "new", new_description, orc))
                    EXCEPT !.calls = Append(@, @[2])])

\* analyze_size_changes(old_description, new_description)
analyze_size_changes(conf, pic_url, old_description, new_description, orc) ==
    SizeAnalysis(CompareSizes(Call(conf, pic_url, "old", old_description, orc),
                              Call(conf, pic_url, "new", new_description, orc)))

\* a variant of the comparison that compares the whole records
FieldsDiffer_WholeRecord(current, previous) == current # previous

\* a variant of the comparison that leaves the price out
FieldsDiffer_NoPrice(current, previous) ==
    \/ current.name # previous.name
    \/ current.description # previous.description

\* the comparison of a product of both snapshots
FieldsDiffer(current, previous) ==
    \/ current.name # previous.name
    \/ current.description # previous.description
    \/ current.price # previous.price

\* a variant that takes every modified product for a change of description
DescriptionDiffers_Always(current, previous) == TRUE

DescriptionDiffers(current, previous) == current.description # previous.description

\* `for image_url in common_images`: acc holds modified_products, the calls
\* made, current_products and whether an exception left the loop
RECURSIVE CommonLoop(_, _, _, _, _)
RECURSIVE Modified(_, _, _, _, _, _, _, _)

\* a product of both snapshots whose description changed; sa is what
\* analyze_size_changes gave, new the current record with the new sizes
Analysed(acc, image_url, previous, sa, new) ==
    [acc EXCEPT !.modified = Append(@, [image_url |-> image_url, old |-> previous,
                                        new |-> new, size_analysis |-> sa.value]),
                !.calls = @ \o sa.calls,
                !.current_products[image_url] = new]

\* the body of the loop for a product whose fields differ
Modified(conf, ids, previous_products, orc, acc, current, previous, sa) ==
    IF ~DescriptionDiffers(current, previous)
    THEN CommonLoop(conf, Tail(ids), previous_products, orc,
            [acc EXCEPT !.modified = Append(@,
                [image_url |-> Head(ids), old |-> previous, new |-> current,
                 size_analysis |-> NoAnalysis])])
    ELSE IF sa.exc
    THEN [acc EXCEPT !.exc = TRUE, !.calls = @ \o sa.calls]
    ELSE CommonLoop(conf, Tail(ids), previous_products, orc,
            Analysed(acc, Head(ids), previous, sa,
                     [current EXCEPT !.sizes = Dumps(sa.value.new_sizes)]))

\* the body of the loop for the product image_url
Compare(conf, ids, previous_products, orc, acc, current, previous) ==
    IF ~FieldsDiffer(current, previous)
    THEN CommonLoop(conf, Tail(ids), previous_products, orc, acc)
    ELSE Modified(conf, ids, previous_products, orc, acc, current, previous,
                  analyze_size_changes(conf, Head(ids),
                                       previous.original_description,
                                       current.original_description, orc))

CommonLoop(conf, ids, previous_products, orc, acc) ==
    IF ids = <<>> \/ acc.exc THEN acc
    ELSE Compare(conf, ids, previous_products, orc, acc,
                 acc.current_products[Head(ids)], previous_products[Head(ids)])

EmptySizes == [available |-> JList(<<>>), sold_out |-> JList(<<>>)]

\* the added product p, and the call c made for it, go into the lists
Added(acc, img, p, calls) ==
    [acc EXCEPT !.added = Append(@, p),
                !.calls = @ \o calls,
                !.current_products[img] = p]

\* an added product with a description: c is the call of analyze_sizes
Described(acc, img, product, c) ==
    Added(acc, img, [product EXCEPT !.sizes = Dumps(c.result)], <<c>>)

\* the body of the loop for the added product img
AddProduct(conf, orc, acc, img, product) ==
    IF product.original_description # ""
    THEN Described(acc, img, product,
                   Call(conf, img, "added", product.original_description, orc))
    ELSE Added(acc, img, [product EXCEPT !.sizes = Dumps(EmptySizes)], <<>>)

\* a variant of the loop that reports the described products only
RECURSIVE AddedLoop_OnlyDescribed(_, _, _, _)
AddedLoop_OnlyDescribed(conf, ids, orc, acc) ==
    IF ids = <<>> THEN acc
    ELSE AddedLoop_OnlyDescribed(conf, Tail(ids), orc,
            IF acc.current_products[Head(ids)].original_description # ""
            THEN AddProduct(conf, orc, acc, Head(ids), acc.current_products[Head(ids)])
            ELSE acc)

\* `for img in added_images`
RECURSIVE AddedLoop(_, _, _, _)
AddedLoop(conf, ids, orc, acc) ==
    IF ids = <<>> THEN acc
    ELSE AddedLoop(conf, Tail(ids), orc,
            AddProduct(conf, orc, acc, Head(ids), acc.current_products[Head(ids)]))

\* the elements of the set S in the iteration order ord
InOrder(S, ord) == SelectSeq(ord, LAMBDA x : x \in S)

\* what the except clause of analyze_product_changes returns
EmptyChanges ==
    [removed |-> <<>>, added |-> <<>>, modified |-> <<>>,
     total_current |-> 0, total_previous |-> 0, current_products |-> EmptySnapshot]

\* `'removed': [previous_products[img] for img in removed_images]`
RemovedList(previous_products, removedSeq) ==
    [i \in 1..Len(removedSeq) |-> previous_products[removedSeq[i]]]

\* a variant whose total_current counts the previous snapshot
SaveAndReturn_TotalsSwapped(file, previous_products, removed, save, after) ==
    IF after.exc
    THEN [changes |-> EmptyChanges, file |-> file, calls |-> after.calls, exc |-> TRUE]
    ELSE CASE save = "ok" ->
                [changes |-> [removed |-> removed,
                              added |-> after.added,
                              modified |-> after.modified,
                              total_current |-> Cardinality(DOMAIN previous_products),
                              total_previous |-> Cardinality(DOMAIN previous_products),
                              current_products |-> after.current_products],
                 file |-> SavedFile(after.current_products),
                 calls |-> after.calls, exc |-> FALSE]
           [] save = "open_fails" ->
                [changes |-> EmptyChanges, file |-> file,
                 calls |-> after.calls, exc |-> TRUE]
           [] OTHER ->
                [changes |-> EmptyChanges, file |-> CorruptFile,
                 calls |-> after.calls, exc |-> TRUE]

\* the changes dict, the save of the history file and the return; after is
\* what the two loops left
SaveAndReturn(file, previous_products, removed, save, after) ==
    IF after.exc
    THEN [changes |-> EmptyChanges, file |-> file, calls |-> after.calls, exc |-> TRUE]
    ELSE CASE save = "ok" ->
                [changes |-> [removed |-> removed,
                              added |-> after.added,
                              modified |-> after.modified,
                              total_current |-> Cardinality(DOMAIN after.current_products),
                              total_previous |-> Cardinality(DOMAIN previous_products),
                              current_products |-> after.current_products],
                 file |-> SavedFile(after.current_products),
                 calls |-> after.calls, exc |-> FALSE]
           [] save = "open_fails" ->      \* open(history_file, 'w') raises
                [changes |-> EmptyChanges, file |-> file,
                 calls |-> after.calls, exc |-> TRUE]
           [] OTHER ->                    \* json.dump raises after the truncation
                [changes |-> EmptyChanges, file |-> CorruptFile,
                 calls |-> after.calls, exc |-> TRUE]

\* the loop over the added products, entered unless an exception left the
\* loop over the common ones
ThenAdded(conf, ids, orc, afterCommon) ==
    IF afterCommon.exc THEN afterCommon ELSE AddedLoop(conf, ids, orc, afterCommon)

\* the comparison of the scraped snapshot with the loaded one
Difference(conf, file, current_products, previous_products, orc, ord, save) ==
    SaveAndReturn(file, previous_products,
        RemovedList(previous_products,
                    InOrder(DOMAIN previous_products \ DOMAIN current_products, ord)),
        save,
        ThenAdded(conf,
            InOrder(DOMAIN current_products \ DOMAIN previous_products, ord), orc,
            CommonLoop(conf,
                InOrder(DOMAIN current_products \cap DOMAIN previous_products, ord),
                previous_products, orc,
                [modified |-> <<>>, added |-> <<>>, calls |-> <<>>,
                 current_products |-> current_products, exc |-> FALSE])))

\* a variant that takes a failed request for a page without products
analyze_product_changes_FetchErrorAsEmpty(conf, file, fetch, orc, ord, save) ==
    IF file.state = "corrupt"
    THEN [changes |-> EmptyChanges, file |-> file, calls |-> <<>>, exc |-> TRUE]
    ELSE Difference(conf, file,
                    IF fetch.kind = "raise" THEN EmptySnapshot
                    ELSE get_products_with_image_ids(fetch),
                    IF file.state = "ok" THEN file.data ELSE EmptySnapshot,
                    orc, ord, save)

(* analyze_product_changes(url, site_name).  file is the history file of the   *)
(* site, fetch the outcome of the request, orc the oracle, ord the iteration   *)
(* order of the sets, save the outcome of writing the history file.            *)
(* Gives the changes returned, the history file left behind, the calls of      *)
(* analyze_sizes made and whether the except clause ran.                       *)
analyze_product_changes(conf, file, fetch, orc, ord, save) ==
    IF fetch.kind = "raise" \/ file.state = "corrupt"
    THEN [changes |-> EmptyChanges, file |-> file, calls |-> <<>>, exc |-> TRUE]
    ELSE Difference(conf, file, get_products_with_image_ids(fetch),
                    IF file.state = "ok" THEN file.data ELSE EmptySnapshot,
                    orc, ord, save)

---------------------------------------------------------------------------
(* The durable store and one iteration of the poll loop *)

\* Product_into_db.store_products_from_dict(products_dict, category_name):
\* the rows of the database file afterwards
PendingSizes == [available |-> JList(<<>>), sold_out |-> JList(<<>>),
                 note |-> JStr(<<"Size analysis pending">>)]

ProductRow(image_url, product_data, category_name) ==
    [name |-> product_data.name,
     pic_url |-> image_url,
     description |-> product_data.original_description,
     price |-> product_data.price,
     sizes |-> IF ~product_data.sizes.null THEN product_data.sizes
               ELSE Dumps(PendingSizes),
     type |-> category_name]

store_products_from_dict(rows, products_dict, category_name, outcome) ==
    IF DOMAIN products_dict = {} THEN rows          \* "No products to store"
    ELSE IF outcome # "ok" THEN rows                \* the transaction is rolled back
    ELSE {r \in rows : r.type # category_name}
           \cup {ProductRow(image_url, products_dict[image_url], category_name) :
                    image_url \in DOMAIN products_dict}

HasChanges(changes) ==
    changes.removed # <<>> \/ changes.added # <<>> \/ changes.modified # <<>>

\* Notifier.send_notification: the number of subscribers that got the message;
\* reached are the chats for which the Telegram request succeeds
send_notification(subs, reached) ==
    Cardinality({i \in 1..Len(subs) : subs[i] \in reached})

(* One iteration of `for site in SITES`: has_site_changed(url, name) and, when *)
(* it returns changes, store_products_from_dict.  r is what                    *)
(* analyze_product_changes gave, has_changes the test of has_site_changed,     *)
(* returned whether has_site_changed returned the changes.                     *)
AfterAnalysis(site, fetch, save, reached, tail, dbo, r, has_changes, returned) ==
    /\ history' = [history EXCEPT ![site] = r.file]
    /\ db' = IF returned
             THEN [db EXCEPT ![site] =
                      store_products_from_dict(@, r.changes.current_products, site, dbo)]
             ELSE db
    /\ last' = [site |-> site,
                fetch |-> fetch,
                save |-> save,
                tail |-> tail,
                dbo |-> dbo,
                reached |-> reached,
                previous |-> history[site],
                changes |-> r.changes,
                calls |-> r.calls,
                exc |-> r.exc,
                notified |-> has_changes,
                delivered |-> IF has_changes
                              THEN send_notification(subscribers, reached) ELSE 0,
                logged |-> returned,
                stored |-> returned,
                owner_errors |-> (IF r.exc THEN 1 ELSE 0)
                                   + (IF has_changes /\ tail # "ok" THEN 1 ELSE 0)]
    /\ cycles' = cycles + 1
    /\ UNCHANGED <<ai, avars, nvars, svars>>

\* a variant that returns the changes dict also when the three lists are empty
has_site_changed_AlwaysReturns(site, fetch, save, reached, tail, dbo, r) ==
    AfterAnalysis(site, fetch, save, reached, tail, dbo, r,
                  HasChanges(r.changes), ~r.exc /\ tail = "ok")

\* tail is the outcome of display_product_warnings and log_changes, dbo that
\* of the database
has_site_changed(site, fetch, save, reached, tail, dbo, r) ==
    AfterAnalysis(site, fetch, save, reached, tail, dbo, r,
                  HasChanges(r.changes), HasChanges(r.changes) /\ tail = "ok")

CheckSite(site, fetch, orc, ord, save, reached, tail, dbo) ==
    has_site_changed(site, fetch, save, reached, tail, dbo,
                     analyze_product_changes(ai, history[site], fetch, orc, ord, save))

\* the sleep that ends an iteration of `while True`
Wait ==
    /\ last.site # ""
    /\ last' = [site |-> "", fetch |-> [kind |-> "raise", listing |-> EmptySnapshot],
                save |-> "ok", tail |-> "ok", dbo |-> "ok", reached |-> {},
                previous |-> AbsentFile, changes |-> EmptyChanges, calls |-> <<>>,
                exc |-> FALSE, notified |-> FALSE, delivered |-> 0, logged |-> FALSE,
                stored |-> FALSE, owner_errors |-> 0]
    /\ UNCHANGED <<ai, avars, nvars, svars, history, db, cycles>>

---------------------------------------------------------------------------
(* The report of a ChangeSet: the lines of the Telegram message and the lines *)
(* appended to the change log.  A line is its wording k, the value text it    *)
(* shows and a number n (a count, an index or the width of a rule).           *)

Rule(ch, width)    == [k |-> "rule", text |-> ch, n |-> width]
Text(k, text)      == [k |-> k, text |-> text, n |-> 0]
Counted(k, text, n) == [k |-> k, text |-> text, n |-> n]

\* the five lines at the top; width is that of the rules
ReportHead(changes, site_name, timestamp, width) ==
    <<Rule("=", width),
      Text("PRODUCT CHANGES DETECTED - ", site_name),
      Text("Timestamp: ", timestamp),
      Text("Total Products: ", <<changes.total_previous, changes.total_current>>),
      Rule("=", width)>>

\* the lines of one removed or added product
ProductBlock(label, i, product, width) ==
    <<Counted(label, "", i),
      Text("  Name: ", product.name),
      Text("  Price: ", product.price),
      Text("  Image URL: ", product.image_url),
      Text("  Description: ", product.description),
      Rule("-", width)>>

\* `for i, product in enumerate(products, 1)`
RECURSIVE ProductBlocks(_, _, _, _)
ProductBlocks(label, products, i, width) ==
    IF i > Len(products) THEN <<>>
    ELSE ProductBlock(label, i, products[i], width)
            \o ProductBlocks(label, products, i + 1, width)

\* a variant whose loop starts at the second product
ProductSection_SkipsFirst(header, label, products, width, item_width) ==
    IF products = <<>> THEN <<>>
    ELSE <<Counted(header, "", Len(products)), Rule("-", width)>>
            \o ProductBlocks(label, products, 2, item_width)

\* the section of the removed or of the added products
ProductSection(header, label, products, width, item_width) ==
    IF products = <<>> THEN <<>>
    ELSE <<Counted(header, "", Len(products)), Rule("-", width)>>
            \o ProductBlocks(label, products, 1, item_width)

\* the comparison of one field of a modified product
FieldLines(changed, unchanged, old, new) ==
    IF old # new
    THEN <<Text(changed, ""), Text("     OLD: ", old), Text("     NEW: ", new)>>
    ELSE <<Text(unchanged, new)>>

\* a line that is written when the list it shows is not empty
IfAny(k, set) == IF set # {} THEN <<Text(k, set)>> ELSE <<>>

\* the lines of the size analysis of a modified product
SizeLines(size_analysis) ==
    IF ~size_analysis.present THEN <<>>
    ELSE IF ~size_analysis.has_size_changes
    THEN <<Text("  Size availability unchanged", "")>>
    ELSE <<Text("  SIZE CHANGES DETECTED:", "")>>
            \o IfAny("     Newly Available: ", size_analysis.newly_available)
            \o IfAny("     Newly Sold Out: ", size_analysis.newly_sold_out)
            \o IfAny("     No Longer Available: ", size_analysis.no_longer_available)
            \o IfAny("     No Longer Sold Out: ", size_analysis.no_longer_sold_out)
            \o <<Text("     OLD Sizes - Available: ",
                      Get(size_analysis.old_sizes, "available", JList(<<>>))),
                 Text("     OLD Sizes - Sold Out: ",
                      Get(size_analysis.old_sizes, "sold_out", JList(<<>>))),
                 Text("     NEW Sizes - Available: ",
                      Get(size_analysis.new_sizes, "available", JList(<<>>))),
                 Text("     NEW Sizes - Sold Out: ",
                      Get(size_analysis.new_sizes, "sold_out", JList(<<>>)))>>

\* the lines of one modified product
ModifiedBlock(i, mod, width) ==
    <<Counted("MODIFIED #", mod.image_url, i)>>
       \o FieldLines("  NAME CHANGED:", "  Name (unchanged): ", mod.old.name, mod.new.name)
       \o FieldLines("  PRICE CHANGED:", "  Price (unchanged): ", mod.old.price, mod.new.price)
       \o FieldLines("  DESCRIPTION CHANGED:", "  Description (unchanged): [:100]...",
                     mod.old.description, mod.new.description)
       \o SizeLines(mod.size_analysis)
       \o <<Text("  Image URL: ", mod.new.image_url), Rule("-", width)>>

\* `for i, mod in enumerate(changes['modified'], 1)`
RECURSIVE ModifiedBlocks(_, _, _)
ModifiedBlocks(modified, i, width) ==
    IF i > Len(modified) THEN <<>>
    ELSE ModifiedBlock(i, modified[i], width) \o ModifiedBlocks(modified, i + 1, width)

\* the section of the modified products
ModifiedSection(modified, width, item_width) ==
    IF modified = <<>> THEN <<>>
    ELSE <<Counted("MODIFIED PRODUCTS", "", Len(modified)), Rule("-", width)>>
            \o ModifiedBlocks(modified, 1, item_width)

\* the two lines at the end
ReportEnd(site_name, timestamp, width) ==
    <<Text("End of changes for ", <<site_name, timestamp>>), Rule("=", width)>>

\* send_notifications_for_changes(changes, site_name): the lines of the body of
\* the message; timestamp is datetime.now() at the call
send_notifications_for_changes(changes, site_name, timestamp) ==
    IF ~HasChanges(changes) THEN <<>>
    ELSE ReportHead(changes, site_name, timestamp, 50)
            \o ProductSection("REMOVED PRODUCTS", "REMOVED #", changes.removed, 40, 30)
            \o ProductSection("NEW PRODUCTS", "NEW #", changes.added, 40, 30)
            \o ModifiedSection(changes.modified, 40, 30)
            \o ReportEnd(site_name, timestamp, 50)

\* log_changes(changes, site_name): the lines appended to the master log
\* after the empty line it starts with
log_changes(changes, site_name, timestamp) ==
    IF ~HasChanges(changes) THEN <<>>
    ELSE ReportHead(changes, site_name, timestamp, 80)
            \o ProductSection("REMOVED PRODUCTS", "REMOVED #", changes.removed, 60, 40)
            \o ProductSection("NEW PRODUCTS", "NEW #", changes.added, 60, 40)
            \o ModifiedSection(changes.modified, 60, 40)
            \o ReportEnd(site_name, timestamp, 80)

---------------------------------------------------------------------------
(* The identity of a listing: normalize_image_url and the loop over the    *)
(* headers of the page.  A URL is a sequence of tokens, each a piece of the *)
(* string: a scheme, the host with its two slashes, a slash, a file name,   *)
(* a blank.                                                                 *)

HOST      == "//www.yonex.ch"
HOST_CAPS == "//WWW.YONEX.CH"
UrlTokens == {"https:", "http:", HOST, HOST_CAPS, "/", "a.jpg", "A.JPG", " "}

\* str.startswith(prefix)
startswith(url, prefix) ==
    Len(url) >= Len(prefix) /\ SubSeq(url, 1, Len(prefix)) = prefix

\* url.startswith('/'): the host tokens begin with a slash too
StartsWithSlash(url) == url # <<>> /\ url[1] \in {"/", HOST, HOST_CAPS}

\* str.replace(old, ''): every occurrence of old, from the left
RECURSIVE replace(_, _)
replace(url, old) ==
    IF url = <<>> THEN <<>>
    ELSE IF startswith(url, old)
         THEN replace(SubSeq(url, Len(old) + 1, Len(url)), old)
         ELSE <<url[1]>> \o replace(Tail(url), old)

\* str.lower()
lower(url) ==
    [i \in 1..Len(url) |->
        CASE url[i] = "A.JPG"   -> "a.jpg"
          [] url[i] = HOST_CAPS -> HOST
          [] OTHER              -> url[i]]

\* str.strip()
RECURSIVE strip(_)
strip(url) ==
    IF url = <<>> THEN <<>>
    ELSE IF url[1] = " " THEN strip(Tail(url))
    ELSE IF url[Len(url)] = " " THEN strip(SubSeq(url, 1, Len(url) - 1))
    ELSE url

\* the first part of normalize_image_url: the protocol and the domain
RemoveDomain(url) ==
    IF startswith(url, <<"https:", HOST>>) THEN replace(url, <<"https:", HOST>>)
    ELSE IF startswith(url, <<"http:", HOST>>) THEN replace(url, <<"http:", HOST>>)
    ELSE IF startswith(url, <<HOST>>) THEN replace(url, <<HOST>>)
    ELSE url

\* the second part: the leading slash
EnsureSlash(url) == IF ~StartsWithSlash(url) THEN <<"/">> \o url ELSE url

normalize_image_url(url) ==
    IF url = <<>> THEN <<>>
    ELSE strip(lower(EnsureSlash(RemoveDomain(url))))

\* a header of the page: its text, the href of the link of the image div
\* that follows it (or none), the description and the price
Href(url) == [present |-> TRUE, url |-> url]
NoHref    == [present |-> FALSE, url |-> <<>>]

\* pic_url of a header
PicUrl(header) ==
    IF header.href.present THEN normalize_image_url(header.href.url) ELSE <<>>

\* products_by_image[pic_url] = {...}
Store(products, pic_url, record) ==
    [k \in DOMAIN products \cup {pic_url} |-> IF k = pic_url THEN record ELSE products[k]]

\* a variant without `if not pic_url: continue`
AddHeader_NoImageCheck(products, header) ==
    IF normalize_text(header.name) = "" THEN products
    ELSE Store(products, PicUrl(header), ProductRecord(PicUrl(header), header))

\* the body of `for header in headers`
AddHeader(products, header) ==
    IF normalize_text(header.name) = "" THEN products
    ELSE IF PicUrl(header) = <<>> THEN products
    ELSE Store(products, PicUrl(header), ProductRecord(PicUrl(header), header))

NIdle      == nUrl = <<>> /\ nOut = <<>>
ScrapeIdle == sPc = "idle" /\ sSeen = <<>> /\ products_by_image = EmptySnapshot

---------------------------------------------------------------------------
(* The subscribers of the Notifier and their file: telegram_notifier.py *)

\* the record json.dump writes: the list and, if there is one, the owner
SubscribersRecord(chat_ids, owner) == [state |-> "ok", chat_ids |-> chat_ids, owner_id |-> owner]

\* the file after open(..., 'w') and a write that did not come to its end
TruncatedRecord == [state |-> "corrupt", chat_ids |-> <<>>, owner_id |-> 0]

\* _save_subscribers: the file afterwards; the exception of a failed open or
\* write is caught and printed
_save_subscribers(file, chat_ids, owner, outcome) ==
    CASE outcome = "ok"         -> SubscribersRecord(chat_ids, owner)
      [] outcome = "open_fails" -> file
      [] OTHER                  -> TruncatedRecord

\* `chat_id in self.subscribers`
IsSubscriber(chat_ids, chat_id) == \E i \in 1..Len(chat_ids) : chat_ids[i] = chat_id

\* list.remove(chat_id): without the first occurrence
RECURSIVE ListRemove(_, _)
ListRemove(chat_ids, chat_id) ==
    IF chat_ids = <<>> THEN <<>>
    ELSE IF Head(chat_ids) = chat_id THEN Tail(chat_ids)
    ELSE <<Head(chat_ids)>> \o ListRemove(Tail(chat_ids), chat_id)

\* what a call did: its name, its argument, what it returned, the list before
BotCall(op, chat_id, ret, before) == [op |-> op, chat_id |-> chat_id, ret |-> ret, before |-> before]
NoBotCall == BotCall("", 0, FALSE, <<>>)

add_subscriber(chat_id, outcome) ==
    /\ IF ~IsSubscriber(subscribers, chat_id)
       THEN /\ subscribers' = Append(subscribers, chat_id)
            /\ subscribers_file' = _save_subscribers(subscribers_file, Append(subscribers, chat_id), owner_id, outcome)
            /\ bLast' = BotCall("add", chat_id, TRUE, subscribers)
       ELSE /\ bLast' = BotCall("add", chat_id, FALSE, subscribers)
            /\ UNCHANGED <<subscribers, subscribers_file>>
    /\ UNCHANGED <<ai, avars, cvars, owner_id, nUrl, nOut, sPc, sSeen, products_by_image>>

remove_subscriber(chat_id, outcome) ==
    /\ IF IsSubscriber(subscribers, chat_id)
       THEN /\ subscribers' = ListRemove(subscribers, chat_id)
            /\ subscribers_file' = _save_subscribers(subscribers_file, ListRemove(subscribers, chat_id), owner_id, outcome)
            /\ bLast' = BotCall("remove", chat_id, TRUE, subscribers)
       ELSE /\ bLast' = BotCall("remove", chat_id, FALSE, subscribers)
            /\ UNCHANGED <<subscribers, subscribers_file>>
    /\ UNCHANGED <<ai, avars, cvars, owner_id, nUrl, nOut, sPc, sSeen, products_by_image>>

BIdle == subscribers_file = SubscribersRecord(subscribers, owner_id) /\ bLast = NoBotCall

---------------------------------------------------------------------------
(* The catalogue the cycles are checked on *)

Ids == {"/fileadmin/a.jpg", "/fileadmin/b.jpg"}

Raw(name, description, price) == [name |-> name, description |-> description, price |-> price]

\* what the page may show for each product: the first one changes its price,
\* its name, its description, or has no description
Catalogue ==
    [i \in Ids |->
        IF i = "/fileadmin/a.jpg"
        THEN {Raw("Shirt A", "S-M (komplett)", "CHF 49.-"),
              Raw("Shirt A", "S-M (komplett)", "CHF 59.-"),
              Raw("Shirt  B", "S-M (komplett)", "CHF 49.-"),
              Raw("Shirt A", "S-L (ausverkauft in L)", "CHF 49.-"),
              Raw("Shirt A", "", "CHF 49.-")}
        ELSE {Raw("Shirt A", "S-M  (Komplett)", "CHF 49.-")}]

PageFetch(listing) == [kind |-> "page", listing |-> listing]
RaiseFetch         == [kind |-> "raise", listing |-> EmptySnapshot]
NoContainerFetch   == [kind |-> "nocontainer", listing |-> EmptySnapshot]

Pages == UNION {{l \in [D -> UNION Range2(Catalogue)] : \A i \in D : l[i] \in Catalogue[i]} :
                    D \in SUBSET Ids \ {{}}}

Fetches == {RaiseFetch, NoContainerFetch} \cup {PageFetch(l) : l \in Pages}

\* the iteration orders of a set of identities
Orders == {o \in [1..Cardinality(Ids) -> Ids] : Range(o) = Ids}

T_ok2 == <<LBRACE, Member("available", JList(<<"S", "M">>)),
           Member("sold_out", JList(<<>>)), RBRACE>>

\* what the oracle does with one description in one cycle
CycleScripts == {<<TextOutcome(T_ok)>>,
                 <<TextOutcome(T_ok2)>>,
                 <<RaiseOutcome(M_429), RaiseOutcome(M_429), RaiseOutcome(M_429)>>,
                 <<TextOutcome(T_nested)>>}

SaveOutcomes == {"ok", "open_fails", "write_fails"}

\* the descriptions a cycle hands to analyze_sizes
Needed(file, fetch) ==
    IF fetch.kind = "raise" \/ file.state = "corrupt" THEN {}
    ELSE LET cur  == get_products_with_image_ids(fetch)
             prev == file.data
         IN  ({cur[i].original_description : i \in DOMAIN cur \ DOMAIN prev}
                \cup UNION {{cur[i].original_description, prev[i].original_description} :
                       i \in {j \in DOMAIN cur \cap DOMAIN prev :
                                 DescriptionDiffers(cur[j], prev[j])}})
              \ {""}

DefaultConf == [provider |-> "gemini", gemini_available |-> TRUE, qwen_api_key |-> FALSE]

NoCycle == [site |-> "", fetch |-> RaiseFetch, save |-> "ok", tail |-> "ok",
            dbo |-> "ok", reached |-> {}, previous |-> AbsentFile,
            changes |-> EmptyChanges, calls |-> <<>>, exc |-> FALSE,
            notified |-> FALSE, delivered |-> 0, logged |-> FALSE, stored |-> FALSE,
            owner_errors |-> 0]

CInit ==
    /\ history = [s \in SiteNames |-> AbsentFile]
    /\ db = [s \in SiteNames |-> {}]
    /\ subscribers = <<1>>
    /\ owner_id = 1
    /\ last = NoCycle
    /\ cycles = 0

---------------------------------------------------------------------------
(* analyze_sizes, request by request *)

AIdle ==
    /\ aPc = "idle"
    /\ aDesc = ""
    /\ aAttempt = 0
    /\ aInit = ClientOk
    /\ aOutcomes = <<>>
    /\ aSlept = <<>>
    /\ aResult = EmptyDict

\* analyze_sizes(description) up to its first request
AnalyzeCall(description, init) ==
    /\ aPc = "idle"
    /\ LET s == analyze_sizes_start(ai, description, init)
       IN  /\ aPc' = IF s.done THEN "done" ELSE "loop"
           /\ aResult' = s.result
    /\ aDesc' = description
    /\ aInit' = init
    /\ aAttempt' = 0
    /\ aOutcomes' = <<>>
    /\ aSlept' = <<>>
    /\ UNCHANGED <<ai, cvars, nvars, svars>>

\* one iteration of `for attempt in range(max_retries)`: a request and its outcome
OracleRequest(outcome) ==
    /\ aPc = "loop"
    /\ LET r == Attempt(ai.provider, aAttempt, outcome)
       IN  /\ aOutcomes' = Append(aOutcomes, outcome)
           /\ IF r.done
              THEN /\ aPc' = "done"
                   /\ aResult' = r.result
                   /\ UNCHANGED <<aAttempt, aSlept>>
              ELSE /\ aSlept' = Append(aSlept, r.sleep)
                   /\ aAttempt' = aAttempt + 1
                   /\ IF aAttempt + 1 >= max_retries
                      THEN /\ aPc' = "done"
                           /\ aResult' = ErrorSizeSet(<<"Max retries exceeded">>)
                      ELSE UNCHANGED <<aPc, aResult>>
    /\ UNCHANGED <<ai, aDesc, aInit, cvars, nvars, svars>>

\* the caller takes the result; the next call may start
AnalyzeReturn ==
    /\ aPc = "done"
    /\ aPc' = "idle"
    /\ aDesc' = ""
    /\ aAttempt' = 0
    /\ aInit' = ClientOk
    /\ aOutcomes' = <<>>
    /\ aSlept' = <<>>
    /\ aResult' = EmptyDict
    /\ UNCHANGED <<ai, cvars, nvars, svars>>

ANext ==
    \/ \E d \in ADescs, i \in ClientInits : AnalyzeCall(d, i)
    \/ \E o \in Outcomes : OracleRequest(o)
    \/ AnalyzeReturn

AInit == ai \in Confs /\ AIdle /\ CInit /\ NIdle /\ ScrapeIdle /\ BIdle

SpecAnalyze == AInit /\ [][ANext]_vars

\* every request gets an answer (a response or an exception) and every sleep ends
FairSpecAnalyze == SpecAnalyze /\ WF_vars(\E o \in Outcomes : OracleRequest(o))

---------------------------------------------------------------------------
(* The change-detection cycles of one site.  The sites share no state: each  *)
(* has its own history file and its own database file, so the iterations of *)
(* the poll loop are followed for the first site.                           *)

Init == ai = DefaultConf /\ AIdle /\ CInit /\ NIdle /\ ScrapeIdle /\ BIdle

MaxCycles == 3

Cycle ==
    /\ last.site = ""
    /\ cycles < MaxCycles
    /\ \E fetch \in Fetches, ord \in Orders, save \in SaveOutcomes :
          \E orc \in [Needed(history["bekleidung"], fetch) -> CycleScripts] :
              CheckSite("bekleidung", fetch, orc, ord, save, Range(subscribers), "ok", "ok")

Next == Cycle \/ Wait

Spec == Init /\ [][Next]_vars

---------------------------------------------------------------------------
(* The poll loop over the sites: `while True: for site in SITES: ...; sleep` *)

\* the site the for loop checks next; "" after the last one
NextSite ==
    IF last.site = "" THEN SITES[1]
    ELSE IF \E i \in 1..(Len(SITES) - 1) : SITES[i] = last.site
         THEN SITES[(CHOOSE i \in 1..(Len(SITES) - 1) : SITES[i] = last.site) + 1]
         ELSE ""

MaxChecks == 3

\* what the page of a site may show in the loop
LoopFetches ==
    {RaiseFetch, NoContainerFetch,
     PageFetch([i \in {"/fileadmin/a.jpg"} |-> Raw("Shirt A", "S-M (komplett)", "CHF 49.-")]),
     PageFetch([i \in {"/fileadmin/a.jpg"} |->
                   Raw("Shirt A", "S-L (ausverkauft in L)", "CHF 49.-")])}

LoopScripts == {<<TextOutcome(T_ok)>>, <<TextOutcome(T_nested)>>}

\* display_product_warnings and log_changes return or raise; the database
\* takes the rows or fails; the Telegram requests succeed or fail
TailOutcomes == {"ok", "raises"}
DbOutcomes   == {"ok", "fails"}
SaveResults  == {"ok", "write_fails"}

\* the body of `for site in SITES` for the next site
LoopCheck ==
    /\ cycles < MaxChecks
    /\ NextSite # ""
    /\ \E fetch \in LoopFetches, save \in SaveResults, tail \in TailOutcomes,
          dbo \in DbOutcomes, reached \in {Range(subscribers), {}} :
          \E orc \in [Needed(history[NextSite], fetch) -> LoopScripts] :
              CheckSite(NextSite, fetch, orc, <<"/fileadmin/a.jpg", "/fileadmin/b.jpg">>,
                        save, reached, tail, dbo)

\* time.sleep(20) after the last site
LoopSleep ==
    /\ last.site = SITES[Len(SITES)]
    /\ Wait

LoopNext == LoopCheck \/ LoopSleep

SpecLoop == Init /\ [][LoopNext]_vars

---------------------------------------------------------------------------
(* normalize_image_url applied to a string and again to what it returned *)

MaxUrlLen == 3
Urls == UNION {[1..n -> UrlTokens] : n \in 0..MaxUrlLen}

MaxApplications == 2

NormalizeCall ==
    /\ Len(nOut) < MaxApplications
    /\ nOut' = Append(nOut, normalize_image_url(IF nOut = <<>> THEN nUrl ELSE nOut[Len(nOut)]))
    /\ UNCHANGED <<ai, avars, cvars, nvars, bvars, nUrl, sPc, sSeen, products_by_image>>

NInit == ai = DefaultConf /\ AIdle /\ CInit /\ nUrl \in Urls /\ nOut = <<>> /\ ScrapeIdle /\ BIdle

SpecNormalize == NInit /\ [][NormalizeCall]_vars

---------------------------------------------------------------------------
(* get_products_with_image_ids, header by header *)

HeaderNames == {"Shirt A", "", "\"\""}
Hrefs == {NoHref, Href(<<>>), Href(<<" ">>), Href(<<"/", "a.jpg">>),
          Href(<<"https:", HOST, "/", "A.JPG">>), Href(<<"/", "a.jpg", "/", "a.jpg">>)}
Headers == [name : HeaderNames, href : Hrefs,
            description : {"S-M (komplett)"}, price : {"CHF 49.-"}]

MaxHeaders == 3

\* the request, the parse and the search of the content area
ScrapeStart ==
    /\ sPc = "idle"
    /\ \E main_content \in BOOLEAN :
          sPc' = IF main_content THEN "loop" ELSE "done"
    /\ UNCHANGED <<ai, avars, cvars, nvars, bvars, nUrl, nOut, sSeen, products_by_image>>

\* one pass of `for header in headers`
ScrapeHeader ==
    /\ sPc = "loop"
    /\ Len(sSeen) < MaxHeaders
    /\ \E header \in Headers :
          /\ sSeen' = Append(sSeen, header)
          /\ products_by_image' = AddHeader(products_by_image, header)
    /\ UNCHANGED <<ai, avars, cvars, nvars, bvars, nUrl, nOut, sPc>>

\* `return products_by_image` after the last header
ScrapeReturn ==
    /\ sPc = "loop"
    /\ sPc' = "done"
    /\ UNCHANGED <<ai, avars, cvars, nvars, bvars, nUrl, nOut, sSeen, products_by_image>>

ScrapeNext == ScrapeStart \/ ScrapeHeader \/ ScrapeReturn

SpecScrape == Init /\ [][ScrapeNext]_vars

---------------------------------------------------------------------------
(* The Telegram bot: /start and /stop on a Notifier loaded from its file *)

ChatIds == {1, 2, 3}

\* the lists without duplicates
NoDuplicates(chat_ids) ==
    \A i, j \in 1..Len(chat_ids) : chat_ids[i] = chat_ids[j] => i = j
LoadedLists ==
    {l \in UNION {[1..n -> ChatIds] : n \in 0..Cardinality(ChatIds)} : NoDuplicates(l)}

\* Notifier(): the list and the owner are those of the file
BInit ==
    /\ ai = DefaultConf /\ AIdle /\ NIdle /\ ScrapeIdle
    /\ history = [s \in SiteNames |-> AbsentFile]
    /\ db = [s \in SiteNames |-> {}]
    /\ last = NoCycle
    /\ cycles = 0
    /\ subscribers \in LoadedLists
    /\ owner_id \in {0, 1}
    /\ BIdle

BNext ==
    \/ \E chat_id \in ChatIds, outcome \in SaveOutcomes : add_subscriber(chat_id, outcome)
    \/ \E chat_id \in ChatIds, outcome \in SaveOutcomes : remove_subscriber(chat_id, outcome)

SpecBot == BInit /\ [][BNext]_vars

---------------------------------------------------------------------------
(* Claims about analyze_sizes *)

EmptySets(d) ==
    /\ "available" \in DOMAIN d /\ d["available"] = JList(<<>>)
    /\ "sold_out" \in DOMAIN d /\ d["sold_out"] = JList(<<>>)

HasError(d) == "error" \in DOMAIN d /\ d["error"].t = "str" /\ d["error"].items # <<>>

\* the call ended on a failure path: no description, no client library or key,
\* the client could not be built, the last request raised or gave no text, or
\* the response held no JSON object
AFailed ==
    \/ aDesc = ""
    \/ ai.provider = "gemini" /\ ~ai.gemini_available
    \/ ai.provider = "qwen" /\ ~ai.qwen_api_key
    \/ aInit.kind = "raise"
    \/ /\ aOutcomes # <<>>
       /\ LET lastOut == aOutcomes[Len(aOutcomes)]
          IN  lastOut.kind \in {"raise", "none"} \/ lastOut.text \in BadTexts

\* C8: analyze_sizes is total, and on every failure path the dict it returns
\* carries a non-empty error.
C8_TotalWithError == (aPc = "done" /\ AFailed) => HasError(aResult)

\* C10: one call sends at most 3 requests, a request is followed by another only
\* when it ended in a rate-limit signal, any other error ends the call with an
\* error dict, three rate limits in a row give empty sets and an error, and the
\* retry loop always comes to its end.
C10_Safety ==
    /\ Len(aOutcomes) <= 3
    /\ aPc = "loop" => aAttempt = Len(aOutcomes) /\ aAttempt < 3
    /\ \A i \in 1..(Len(aOutcomes) - 1) : RateSignal(ai.provider, aOutcomes[i])
    /\ \A i \in 1..Len(aOutcomes) :
          (aOutcomes[i].kind = "raise" /\ ~RateSignal(ai.provider, aOutcomes[i]))
             => /\ aPc = "done"
                /\ i = Len(aOutcomes)
                /\ EmptySets(aResult)
                /\ "error" \in DOMAIN aResult
    /\ (/\ aPc = "done"
        /\ Len(aOutcomes) = 3
        /\ \A i \in 1..3 : RateSignal(ai.provider, aOutcomes[i]))
          => EmptySets(aResult) /\ HasError(aResult)

C10_BoundedRetries == []C10_Safety /\ ((aPc = "loop") ~> (aPc = "done"))

\* three rate limits in a row, the call has returned
C10_Witness ==
    /\ aPc = "done"
    /\ Len(aOutcomes) = 3
    /\ \A i \in 1..3 : RateSignal(ai.provider, aOutcomes[i])
    /\ Len(aSlept) = 2

---------------------------------------------------------------------------
(* Claims about the change-detection cycle *)

\* a cycle has run in this iteration, and it ran to its return statement
Ran       == last.site # ""
Completed == Ran /\ ~last.exc

\* the snapshot the cycle loaded and the one it scraped
Prev == last.previous.data
Cur  == IF last.fetch.kind = "raise" THEN EmptySnapshot
        ELSE get_products_with_image_ids(last.fetch)

Ids_of(seq) == {seq[k].image_url : k \in 1..Len(seq)}

\* the entries of two snapshots are the same but for the sizes filled in later
SameEntries(P, C) ==
    /\ DOMAIN P = DOMAIN C
    /\ \A i \in DOMAIN P : [P[i] EXCEPT !.sizes = NullSizes] = C[i]

NoChanges(ch) == ch.added = <<>> /\ ch.removed = <<>> /\ ch.modified = <<>>

\* C1: change detection with previous = S and current = S yields an empty
\* ChangeSet: added, removed and modified are all empty.
C1_DiffOfEqualSnapshots ==
    (Ran /\ last.previous.state = "ok" /\ SameEntries(Prev, Cur))
       => NoChanges(last.changes)

C1_Witness ==
    /\ Completed
    /\ last.previous.state = "ok"
    /\ Cardinality(DOMAIN Prev) = 2
    /\ \E i \in DOMAIN Prev : ~Prev[i].sizes.null
    /\ SameEntries(Prev, Cur)

\* C2: an identity of both snapshots is in modified if and only if its
\* normalized name, description or price differs between the two records.
C2_ModifiedIffFieldDiffers ==
    Completed =>
       \A i \in DOMAIN Prev \cap DOMAIN Cur :
          (i \in Ids_of(last.changes.modified))
             <=> \/ Cur[i].name # Prev[i].name
                 \/ Cur[i].description # Prev[i].description
                 \/ Cur[i].price # Prev[i].price

\* one product modified by its price alone, the other one unchanged
C2_Witness ==
    /\ Completed
    /\ \E i, j \in DOMAIN Prev \cap DOMAIN Cur :
          /\ i \in Ids_of(last.changes.modified)
          /\ Cur[i].price # Prev[i].price
          /\ Cur[i].name = Prev[i].name
          /\ Cur[i].description = Prev[i].description
          /\ j \notin Ids_of(last.changes.modified)

\* C3: with no prior snapshot (the load gives the empty mapping) every entry of
\* the current snapshot is in added, and modified and removed are empty.
C3_ColdStartAllAdded ==
    (Completed /\ Prev = EmptySnapshot) =>
       /\ Ids_of(last.changes.added) = DOMAIN Cur
       /\ Len(last.changes.added) = Cardinality(DOMAIN Cur)
       /\ \A k \in 1..Len(last.changes.added) :
             [last.changes.added[k] EXCEPT !.sizes = NullSizes]
                = Cur[last.changes.added[k].image_url]
       /\ last.changes.modified = <<>>
       /\ last.changes.removed = <<>>

\* a cold start on a page of two products, one of them without a description
C3_Witness ==
    /\ Completed
    /\ last.previous.state = "absent"
    /\ Cardinality(DOMAIN Cur) = 2
    /\ \E i \in DOMAIN Cur : Cur[i].original_description = ""
    /\ Len(last.changes.added) = 2

\* C4: analyze_sizes is called only for added entries with a non-empty original
\* description and for entries of both snapshots whose normalized description
\* changed; never for a change of price or name alone, nor for removed or
\* unchanged entries.
C4_ParserCallsOnlyWhereNeeded ==
    Ran =>
       \A k \in 1..Len(last.calls) :
          LET c == last.calls[k]
              i == c.image_url
          IN  \/ /\ c.role = "added"
                 /\ i \in DOMAIN Cur \ DOMAIN Prev
                 /\ Cur[i].original_description # ""
                 /\ c.description = Cur[i].original_description
              \/ /\ c.role \in {"old", "new"}
                 /\ i \in DOMAIN Cur \cap DOMAIN Prev
                 /\ Cur[i].description # Prev[i].description

\* a product whose price alone changed and an unchanged one: no call at all
C4_Witness ==
    /\ Completed
    /\ last.calls = <<>>
    /\ Len(last.changes.modified) = 1
    /\ last.changes.modified[1].old.price # last.changes.modified[1].new.price
    /\ Cardinality(DOMAIN Cur) = 2

CallsFor(i) == {k \in 1..Len(last.calls) : last.calls[k].image_url = i}

\* C5 as stated: in one cycle the oracle is invoked at most once for each
\* changed entry.
C5_AtMostOncePerEntry ==
    Ran => \A i \in Ids :
              /\ Cardinality(CallsFor(i)) <= 1
              /\ \A k \in CallsFor(i) : last.calls[k].requests <= 1

\* C5 amended: analyze_sizes is called at most once for an added entry and at
\* most twice, once for the old and once for the new description, for a
\* modified entry; each call sends at most 3 requests to the oracle.
C5_OncePerDescription ==
    Ran => \A i \in Ids :
              /\ \A r \in {"added", "old", "new"} :
                    Cardinality({k \in CallsFor(i) : last.calls[k].role = r}) <= 1
              /\ i \in DOMAIN Cur \ DOMAIN Prev => Cardinality(CallsFor(i)) <= 1
              /\ Cardinality(CallsFor(i)) <= 2
              /\ \A k \in CallsFor(i) : last.calls[k].requests <= 3

\* a modified entry analysed twice, one of the calls with three requests
C5_Witness ==
    /\ Completed
    /\ \E i \in Ids_of(last.changes.modified) :
          /\ Cardinality(CallsFor(i)) = 2
          /\ \E k \in CallsFor(i) : last.calls[k].requests = 3

\* C6: once sizes have been produced for an entry and persisted, they stay in
\* the persisted snapshot and in the durable store in every later cycle that
\* leaves the description unchanged.
C6_SizesKeptWhileDescriptionUnchanged ==
    [][\A s \in SiteNames :
         /\ (history[s].state = "ok" /\ history'[s].state = "ok") =>
               \A i \in DOMAIN history[s].data \cap DOMAIN history'[s].data :
                  (/\ ~history[s].data[i].sizes.null
                   /\ history'[s].data[i].description = history[s].data[i].description)
                     => history'[s].data[i].sizes = history[s].data[i].sizes
         /\ \A r \in db[s] : \A q \in db'[s] :
               (r.pic_url = q.pic_url /\ r.description = q.description)
                  => q.sizes = r.sizes]_vars

\* C7: when the save fails, the persisted previous snapshot is still intact and
\* loadable: the history file is the old snapshot or the new one, never less.
C7_SaveIsAtomic ==
    (Ran /\ last.previous.state = "ok" /\ last.fetch.kind # "raise")
       => \/ history[last.site] = last.previous
          \/ /\ history[last.site].state = "ok"
             /\ DOMAIN history[last.site].data = DOMAIN Cur

\* the changes of the two snapshots as section 4.4 defines them
TrueAdded    == DOMAIN Cur \ DOMAIN Prev
TrueRemoved  == DOMAIN Prev \ DOMAIN Cur
TrueModified == {i \in DOMAIN Cur \cap DOMAIN Prev : FieldsDiffer(Cur[i], Prev[i])}

\* C9: whatever the oracle returns, a cycle whose fetch, load and save work
\* returns the ChangeSet with the true added, removed and modified entries.
C9_OracleNeverBlocksDiff ==
    (Ran /\ last.fetch.kind # "raise" /\ last.previous.state # "corrupt"
         /\ last.save = "ok")
       => /\ Ids_of(last.changes.added) = TrueAdded
          /\ Ids_of(last.changes.removed) = TrueRemoved
          /\ Ids_of(last.changes.modified) = TrueModified

---------------------------------------------------------------------------
(* Claims about the waits and the responses of analyze_sizes *)

\* C11: the seconds slept before a retry never exceed a fixed maximum, whatever
\* the error of the oracle says (here: the wait the code takes by default).
C11_WaitCapped ==
    \A i \in 1..Len(aSlept) : aSlept[i] <= default_delay

\* the index of the brace that closes the one at which the scan began
RECURSIVE BalancedEnd(_, _, _)
BalancedEnd(s, i, depth) ==
    IF i > Len(s) THEN 0
    ELSE IF s[i] = LBRACE THEN BalancedEnd(s, i + 1, depth + 1)
    ELSE IF s[i] = RBRACE
         THEN IF depth = 1 THEN i ELSE BalancedEnd(s, i + 1, depth - 1)
    ELSE BalancedEnd(s, i + 1, depth)

\* the first balanced brace-delimited JSON object of a text
FirstObject(s) ==
    IF Find(s, LBRACE) = 0 \/ BalancedEnd(s, Find(s, LBRACE), 0) = 0
    THEN Fail
    ELSE JsonLoads(SubSeq(s, Find(s, LBRACE), BalancedEnd(s, Find(s, LBRACE), 0)))

\* the call ended with a text of the oracle
AnsweredText ==
    /\ aPc = "done"
    /\ aOutcomes # <<>>
    /\ aOutcomes[Len(aOutcomes)].kind = "text"

\* C12: for a response that holds a well-formed JSON object among other text
\* (fences, prose, further braces), the dict returned is the first balanced
\* brace-delimited object of the response.
C12_FirstBalancedObject ==
    (AnsweredText /\ FirstObject(aOutcomes[Len(aOutcomes)].text).ok)
       => aResult = FirstObject(aOutcomes[Len(aOutcomes)].text).dict

\* C13: in every dict analyze_sizes returns, if the error field is present
\* then available and sold_out are both empty.
C13_ErrorMeansNoSizes ==
    (aPc = "done" /\ "error" \in DOMAIN aResult)
       => /\ Get(aResult, "available", JList(<<>>)) = JList(<<>>)
          /\ Get(aResult, "sold_out", JList(<<>>)) = JList(<<>>)

---------------------------------------------------------------------------
(* Claims about the size delta and the order of the changes *)

\* the size deltas of the modified entries of the cycle
Deltas ==
    {last.changes.modified[k].size_analysis :
        k \in {j \in 1..Len(last.changes.modified) :
                  last.changes.modified[j].size_analysis.present}}

\* C14 as stated: the four sets of a size delta are pairwise disjoint.
C14_FourSetsDisjoint ==
    \A d \in Deltas :
       /\ d.newly_available \cap d.no_longer_available = {}
       /\ d.newly_sold_out \cap d.no_longer_sold_out = {}
       /\ d.newly_available \cap d.newly_sold_out = {}
       /\ d.newly_available \cap d.no_longer_sold_out = {}
       /\ d.no_longer_available \cap d.newly_sold_out = {}
       /\ d.no_longer_available \cap d.no_longer_sold_out = {}

\* C14 amended: newly_available and no_longer_available are disjoint, and so
\* are newly_sold_out and no_longer_sold_out; each set is the difference of
\* the new and the old list it is named after.
C14_OppositeSetsDisjoint ==
    \A d \in Deltas :
       /\ d.newly_available \cap d.no_longer_available = {}
       /\ d.newly_sold_out \cap d.no_longer_sold_out = {}
       /\ d.newly_available \cap SetOf(Get(d.old_sizes, "available", JList(<<>>))).set = {}
       /\ d.no_longer_available \cap SetOf(Get(d.new_sizes, "available", JList(<<>>))).set = {}

\* a size went from sold out to available: it is newly available and no
\* longer sold out
C14_Witness ==
    /\ Completed
    /\ \E d \in Deltas :
          /\ d.newly_available \cap d.no_longer_sold_out # {}
          /\ d.no_longer_available = {}

\* the ascending order of the identity strings of the catalogue
Precedes(a, b) == a = "/fileadmin/a.jpg" /\ b = "/fileadmin/b.jpg"

Ascending(seq) ==
    \A k, l \in 1..Len(seq) : k < l => Precedes(seq[k].image_url, seq[l].image_url)

\* C15: added, removed and modified of a ChangeSet are each ordered by
\* ascending identity string.
C15_SortedByIdentity ==
    Ran => /\ Ascending(last.changes.added)
           /\ Ascending(last.changes.removed)
           /\ Ascending(last.changes.modified)

---------------------------------------------------------------------------
(* Claims about the poll loop and the reports *)

\* something failed in the cycle: the fetch, the load, the size analysis or
\* the save; the warnings or the log; the database; a delivery
CycleFailed ==
    \/ last.exc
    \/ last.notified /\ last.tail # "ok"
    \/ last.stored /\ last.dbo # "ok"
    \/ last.notified /\ last.delivered < Len(subscribers)

\* C16: every site is checked in its turn, and a failure in the cycle of a
\* site is caught and reported to the owner.
C16_FailuresCaughtAndReported ==
    /\ Ran => last.site \in SiteNames
    /\ (Ran /\ CycleFailed) => last.owner_errors >= 1

\* two texts are the same, line for line
SameLines(a, b) ==
    /\ Len(a) = Len(b)
    /\ \A i \in 1..Len(a) :
          a[i].k = b[i].k /\ a[i].n = b[i].n /\ a[i].text = b[i].text

\* C17: for a ChangeSet that is not empty, the text sent to the subscribers and
\* the text appended to the change log are the same, line for line.
C17_SameRendering ==
    (Ran /\ last.logged)
       => SameLines(send_notifications_for_changes(last.changes, last.site, "now"),
                    log_changes(last.changes, last.site, "now"))

\* the lines of a text with the wording k, and the numbers they show
LinesOf(lines, k) == {i \in 1..Len(lines) : lines[i].k = k}
NumbersOf(lines, k) == {lines[i].n : i \in LinesOf(lines, k)}

\* the section header shows the count of the list, one block is there for
\* each of its entries, numbered from 1; no header and no block for none
SectionMatches(lines, header, label, list) ==
    /\ Cardinality(LinesOf(lines, label)) = Len(list)
    /\ NumbersOf(lines, label) = 1..Len(list)
    /\ NumbersOf(lines, header) = IF list = <<>> THEN {} ELSE {Len(list)}
    /\ Cardinality(LinesOf(lines, header)) <= 1

\* C18: the counts in the section headers of the report equal the numbers of
\* REMOVED #i, NEW #i and MODIFIED #i blocks, and the lengths of removed, added
\* and modified of the ChangeSet.
C18_HeaderCountsMatchBlocks ==
    (Ran /\ last.notified) =>
       /\ SectionMatches(send_notifications_for_changes(last.changes, last.site, "now"),
                         "REMOVED PRODUCTS", "REMOVED #", last.changes.removed)
       /\ SectionMatches(send_notifications_for_changes(last.changes, last.site, "now"),
                         "NEW PRODUCTS", "NEW #", last.changes.added)
       /\ SectionMatches(send_notifications_for_changes(last.changes, last.site, "now"),
                         "MODIFIED PRODUCTS", "MODIFIED #", last.changes.modified)

\* a report with one added and one modified product has been sent
C18_Witness ==
    /\ Completed
    /\ last.notified
    /\ Len(last.changes.added) = 1
    /\ Len(last.changes.modified) = 1
    /\ last.changes.removed = <<>>

---------------------------------------------------------------------------
(* Claims about the identity of a listing *)

\* C19: normalize_image_url is idempotent: applied to what it returned for a
\* string, it returns the same again.
C19_Idempotent == Len(nOut) >= 2 => nOut[2] = nOut[1]

\* a header with a name and an image reference
Extractable(header) ==
    /\ normalize_text(header.name) # ""
    /\ header.href.present
    /\ header.href.url # <<>>

\* C20: every key of the scraped snapshot is a non-empty identity equal to the
\* image_url field of its entry, and the entries are those of the listings
\* with a name and an image reference: no other listing enters.
C20_KeysAreIdentities ==
    /\ \A k \in DOMAIN products_by_image :
          /\ k # <<>>
          /\ products_by_image[k].image_url = k
          /\ products_by_image[k].name # ""
    /\ DOMAIN products_by_image =
          {normalize_image_url(sSeen[i].href.url) :
              i \in {j \in 1..Len(sSeen) : Extractable(sSeen[j])}}

\* a page with a listing without image, one without name and one with both
C20_Witness ==
    /\ sPc = "done"
    /\ \E i, j, l \in 1..Len(sSeen) :
          /\ ~sSeen[i].href.present /\ sSeen[i].name = "Shirt A"
          /\ sSeen[j].name = "\"\"" /\ sSeen[j].href = Href(<<"/", "a.jpg">>)
          /\ Extractable(sSeen[l])
    /\ Cardinality(DOMAIN products_by_image) = 1

\* C22: for a description with an explicit sold-out list and the word
\* "komplett", the SizeSet analyze_sizes returns without error has the listed
\* tokens in sold_out and every other token in available: here S, M, L, XXL
\* available and XL sold out.
C22_ExplicitSoldOutOverKomplett ==
    (/\ aPc = "done"
     /\ aDesc = "S-XXL (ausverkauft in XL, sonst komplett)"
     /\ "error" \notin DOMAIN aResult)
       => /\ Get(aResult, "available", JNull) = JList(<<"S", "M", "L", "XXL">>)
          /\ Get(aResult, "sold_out", JNull) = JList(<<"XL">>)

\* a call returned what the membership of its argument asks for
ReturnedRight ==
    bLast.op # "" =>
        bLast.ret = IF bLast.op = "add" THEN ~IsSubscriber(bLast.before, bLast.chat_id)
                    ELSE IsSubscriber(bLast.before, bLast.chat_id)

\* C23: no chat id is twice in the subscriber list, add_subscriber returns
\* True exactly for an absent id and remove_subscriber exactly for a present
\* one, and after a call that returned True the file holds the list of the
\* Notifier and the owner id it held before.
C23_SubscribersPersisted ==
    /\ NoDuplicates(subscribers)
    /\ ReturnedRight
    /\ (bLast.op # "" /\ bLast.ret)
          => subscribers_file = SubscribersRecord(subscribers, owner_id)

---------------------------------------------------------------------------
(* Claims about the durable store, the subscribers and the fate of changes *)

\* one row per entry of the snapshot D for the category c
RowsOf(D, c) == {ProductRow(image_url, D[image_url], c) : image_url \in DOMAIN D}

\* C21: after store_products_from_dict(D, c) has returned without a database
\* error, the store holds for category c exactly one row per entry of D, for
\* every D, the empty one included, and the rows of the other categories are
\* as before.
C21_ReplaceAllRowsOfCategory ==
    [][(last'.site # "" /\ last'.stored /\ last'.dbo = "ok")
          => /\ db'[last'.site] = RowsOf(last'.changes.current_products, last'.site)
             /\ \A s \in SiteNames \ {last'.site} : db'[s] = db[s]]_vars

\* C24: the identities of added are keys(current) minus keys(previous), those
\* of removed are keys(previous) minus keys(current), those of modified are
\* common keys, the three sets are pairwise disjoint, no identity is listed
\* twice, and total_current = total_previous + |added| - |removed|.
C24_KeySetAlgebra ==
    Completed =>
       /\ Ids_of(last.changes.added) = DOMAIN Cur \ DOMAIN Prev
       /\ Ids_of(last.changes.removed) = DOMAIN Prev \ DOMAIN Cur
       /\ Ids_of(last.changes.modified) \subseteq DOMAIN Cur \cap DOMAIN Prev
       /\ Ids_of(last.changes.added) \cap Ids_of(last.changes.removed) = {}
       /\ Ids_of(last.changes.added) \cap Ids_of(last.changes.modified) = {}
       /\ Ids_of(last.changes.removed) \cap Ids_of(last.changes.modified) = {}
       /\ Len(last.changes.added) = Cardinality(Ids_of(last.changes.added))
       /\ Len(last.changes.removed) = Cardinality(Ids_of(last.changes.removed))
       /\ Len(last.changes.modified) = Cardinality(Ids_of(last.changes.modified))
       /\ last.changes.total_current
             = last.changes.total_previous + Len(last.changes.added)
                  - Len(last.changes.removed)

\* one product has gone, another one has come
C24_Witness ==
    /\ Completed
    /\ Len(last.changes.added) = 1
    /\ Len(last.changes.removed) = 1
    /\ last.changes.total_previous = 1

\* the sizes a SizeSet lists under a key
SizesOf(sizes, key) == SetOf(Get(sizes, key, JList(<<>>))).set

\* the modified entries of the cycle whose description changed
DescriptionChanged ==
    {k \in 1..Len(last.changes.modified) :
        DescriptionDiffers(last.changes.modified[k].new, last.changes.modified[k].old)}

\* the SizeSet analyze_sizes returned in the cycle for an entry in a role
ParsedFor(image_url, role) ==
    {last.calls[c].result :
        c \in {d \in 1..Len(last.calls) :
                  last.calls[d].image_url = image_url /\ last.calls[d].role = role}}

\* the delta d is the difference of the SizeSets old and new
IsDelta(d, old, new) ==
    /\ d.newly_available = SizesOf(new, "available") \ SizesOf(old, "available")
    /\ d.newly_sold_out = SizesOf(new, "sold_out") \ SizesOf(old, "sold_out")
    /\ d.no_longer_available = SizesOf(old, "available") \ SizesOf(new, "available")
    /\ d.no_longer_sold_out = SizesOf(old, "sold_out") \ SizesOf(new, "sold_out")
    /\ d.has_size_changes <=> \/ d.newly_available # {}
                              \/ d.newly_sold_out # {}
                              \/ d.no_longer_available # {}
                              \/ d.no_longer_sold_out # {}

\* C25: a modified entry whose description changed carries the size delta of
\* the SizeSets parsed from its old and its new description: the four set
\* differences, and has_size_changes true exactly when one of them is not empty.
C25_DeltaIsSetDifference ==
    Completed =>
       \A k \in DescriptionChanged :
          /\ last.changes.modified[k].size_analysis.present
          /\ ParsedFor(last.changes.modified[k].image_url, "old")
                = {last.changes.modified[k].size_analysis.old_sizes}
          /\ ParsedFor(last.changes.modified[k].image_url, "new")
                = {last.changes.modified[k].size_analysis.new_sizes}
          /\ IsDelta(last.changes.modified[k].size_analysis,
                     last.changes.modified[k].size_analysis.old_sizes,
                     last.changes.modified[k].size_analysis.new_sizes)

\* a delta whose only non-empty sets are the no_longer_ ones
C25_Witness ==
    /\ Completed
    /\ \E k \in DescriptionChanged :
          /\ last.changes.modified[k].size_analysis.has_size_changes
          /\ last.changes.modified[k].size_analysis.newly_available = {}
          /\ last.changes.modified[k].size_analysis.newly_sold_out = {}
          /\ last.changes.modified[k].size_analysis.no_longer_available # {}

\* C26: no detected change is lost: when a cycle detects changes and its
\* report reaches no subscriber, the history file of the site is the one the
\* cycle loaded, so that the next cycle detects the same changes again.
C26_NoChangeLost ==
    (Ran /\ HasChanges(last.changes) /\ last.delivered = 0)
       => history[last.site] = last.previous

\* C27: when the page has no product container, the cycle reports none of the
\* known entries as removed and leaves the history file as it was.
C27_MissingContainerKeepsSnapshot ==
    (/\ Ran
     /\ last.fetch.kind = "nocontainer"
     /\ last.previous.state = "ok"
     /\ DOMAIN Prev # {})
       => /\ last.changes.removed = <<>>
          /\ history[last.site] = last.previous

\* C28: a cycle whose request raises returns the empty ChangeSet, notifies no
\* subscriber, does not write the database and leaves the history file of the
\* site as it was.
C28_FetchFailureChangesNothing ==
    [][(last'.site # "" /\ last'.fetch.kind = "raise")
          => /\ NoChanges(last'.changes)
             /\ last'.changes.total_current = 0
             /\ ~last'.notified
             /\ last'.delivered = 0
             /\ ~last'.stored
             /\ db' = db
             /\ history' = history]_vars

\* the request failed in a cycle that had a snapshot and rows to lose
C28_Witness ==
    /\ Ran
    /\ last.fetch.kind = "raise"
    /\ last.previous.state = "ok"
    /\ DOMAIN Prev # {}
    /\ db[last.site] # {}
    /\ last.owner_errors = 1

\* C29: when the oracle was asked for the old and the new description of a
\* modified entry and analyze_sizes returned a SizeSet with an error for one of
\* them, the size delta of the entry has has_size_changes false and its four
\* sets empty.
C29_AnalysisFailureIsNoSizeChange ==
    Completed =>
       \A k \in DescriptionChanged :
          (/\ last.changes.modified[k].size_analysis.present
           /\ last.changes.modified[k].old.original_description # ""
           /\ last.changes.modified[k].new.original_description # ""
           /\ \/ "error" \in DOMAIN last.changes.modified[k].size_analysis.old_sizes
              \/ "error" \in DOMAIN last.changes.modified[k].size_analysis.new_sizes)
             => /\ ~last.changes.modified[k].size_analysis.has_size_changes
                /\ last.changes.modified[k].size_analysis.newly_available = {}
                /\ last.changes.modified[k].size_analysis.newly_sold_out = {}
                /\ last.changes.modified[k].size_analysis.no_longer_available = {}
                /\ last.changes.modified[k].size_analysis.no_longer_sold_out = {}

\* C30: a cycle that completes leaves the entries it scraped in the history
\* file, and a cycle that completes on a history file with the entries it
\* scrapes yields the empty ChangeSet, asks the oracle nothing, notifies nobody
\* and does not write the database: of two consecutive complete cycles with
\* the same entries, the second one does nothing.
C30_SecondCycleIsSilent ==
    [][(last'.site # "" /\ ~last'.exc)
          => /\ history'[last'.site].state = "ok"
             /\ SameEntries(history'[last'.site].data, Cur')
             /\ (history[last'.site].state = "ok"
                   /\ SameEntries(history[last'.site].data, Cur'))
                  => /\ NoChanges(last'.changes)
                     /\ last'.calls = <<>>
                     /\ ~last'.notified
                     /\ last'.delivered = 0
                     /\ ~last'.stored
                     /\ db' = db]_vars

\* the second of two complete cycles with the same two entries, after the
\* first one stored its rows
C30_Witness ==
    /\ Completed
    /\ cycles >= 2
    /\ last.previous.state = "ok"
    /\ Cardinality(DOMAIN Cur) = 2
    /\ SameEntries(Prev, Cur)
    /\ Cardinality(db[last.site]) = 2
    /\ last.calls = <<>>

====
